---- MODULE Spec2Model ----
(***************************************************************************)
(* A model of vdiff (src/vdiff.py): the reference extractor get_git_ids,   *)
(* the memoized patch fetcher get_patch over the command runner shell, and *)
(* the Textual widgets DiffList / GetDiffs / DiffViewer that drive them.   *)
(*                                                                         *)
(* Python strings are modelled as sequences of one-character strings, so   *)
(* that the two regular expressions are computed character by character.   *)
(***************************************************************************)
EXTENDS Integers, Sequences, FiniteSets, TLC

VARIABLES
    cache,        \* get_patch's lru_cache: <<[key, val]>>, least recently used first
    lastCall,     \* observation of the latest get_patch call
    prevCall,     \* observation of the get_patch call before it
    everOk,       \* references some get_patch call has returned a patch for
    othersSince,  \* per tracked reference: distinct other references returned since its last return
    ext,          \* observation of the latest get_git_ids call
    list_items,   \* DiffList's children: the label content of each ListItem
    index,        \* ListView.index (0 models None)
    listQ,        \* messages pending at DiffList (ListView.Highlighted)
    appQ,         \* messages pending at DiffViewer (DiffList.Highlight, GetDiffs.CommandRun)
    commit,       \* DiffViewer.commit
    diff_stat,    \* DiffStat.text
    crashed,      \* the exception that escaped a message handler, if any
    cmdRun,       \* observation of the latest on_button_pressed
    inflight      \* the processes get_patch has spawned that have not exited yet

fetchVars == <<cache, lastCall, prevCall, everOk, othersSince>>
appVars == <<list_items, index, listQ, appQ, commit, diff_stat, crashed, cmdRun, inflight>>
vars == <<cache, lastCall, prevCall, everOk, othersSince, ext,
          list_items, index, listQ, appQ, commit, diff_stat, crashed, cmdRun, inflight>>

(***************************************************************************)
(* Bounds of the model.                                                    *)
(***************************************************************************)
MaxTokens == 3      \* longest token sequence handed to get_git_ids
MaxVersions == 2    \* distinct outputs the external tool may give for one reference
MaxQueue == 2       \* longest message queue of a widget
MaxFresh == 129     \* distinct further references fetched in the eviction scenario
MaxWords == 3       \* most words in a text of the command input

(***************************************************************************)
(* Characters and strings.                                                 *)
(***************************************************************************)
Digits == {"0", "1", "2", "3", "4", "5", "6", "7", "8", "9"}

HexChars == Digits \cup {"a", "b", "c", "d", "e", "f", "A", "B", "C", "D", "E", "F"}

\* The characters \w matches among those the model uses.
WordChars == HexChars \cup {"g", "h", "n", "o", "r", "s", "t", "x", "z", "S", "_"}

Rep(ch, n) == [i \in 1..n |-> ch]

Max(S) == CHOOSE x \in S : \A y \in S : y <= x

IsPrefix(p, s) == Len(p) <= Len(s) /\ SubSeq(s, 1, Len(p)) = p

NoMatch == <<"no match">>

\* \b after the first n characters of s.
WordBoundary(s, n) ==
    (n >= 1 /\ n <= Len(s) /\ s[n] \in WordChars)
        # (n + 1 <= Len(s) /\ s[n + 1] \in WordChars)

MinHashLen == 5
MaxHashLen == 40

\* COMMIT_HASH.match(s): ^([a-fA-F0-9]{5,40})\b, the quantifier greedy, so the
\* longest run of 5..40 hex characters that a word boundary follows.
COMMIT_HASH(s) ==
    LET runs == {n \in MinHashLen..MaxHashLen :
                    /\ n <= Len(s)
                    /\ \A i \in 1..n : s[i] \in HexChars
                    /\ WordBoundary(s, n)}
    IN  IF runs = {} THEN NoMatch ELSE SubSeq(s, 1, Max(runs))

StashPrefix == <<"s", "t", "a", "s", "h", "@", "{">>

\* STASH_ID.match(s): ^(stash@\{\d+\})
STASH_ID(s) ==
    LET ends == {n \in (Len(StashPrefix) + 2)..Len(s) :
                    /\ IsPrefix(StashPrefix, s)
                    /\ s[n] = "}"
                    /\ \A i \in (Len(StashPrefix) + 1)..(n - 1) : s[i] \in Digits}
    IN  IF ends = {} THEN NoMatch ELSE SubSeq(s, 1, Max(ends))

(***************************************************************************)
(* get_git_ids: the first pattern that matches a token gives its group;    *)
(* a token neither pattern matches is skipped.                             *)
(***************************************************************************)
MatchId(tok) ==
    IF COMMIT_HASH(tok) # NoMatch THEN COMMIT_HASH(tok) ELSE STASH_ID(tok)

RECURSIVE get_git_ids_whole(_)
get_git_ids_whole(commits) ==
    IF commits = <<>> THEN <<>>
    ELSE IF MatchId(Head(commits)) = NoMatch THEN get_git_ids_whole(Tail(commits))
    ELSE <<Head(commits)>> \o get_git_ids_whole(Tail(commits))

\* get_git_ids returning each reference once.
RECURSIVE get_git_ids_unique(_)
get_git_ids_unique(commits) ==
    IF commits = <<>> THEN <<>>
    ELSE LET rest == get_git_ids_unique(SubSeq(commits, 1, Len(commits) - 1))
             id == MatchId(commits[Len(commits)])
         IN  IF id = NoMatch \/ (\E i \in DOMAIN rest : rest[i] = id)
             THEN rest ELSE Append(rest, id)

\* The characters str.split() splits at.
Whitespace == {" ", "\t", "\n"}

\* commits.split(): the maximal runs of characters that are not whitespace.
RECURSIVE StrSplit(_, _)
StrSplit(rest, cur) ==
    IF rest = <<>> THEN (IF cur = <<>> THEN <<>> ELSE <<cur>>)
    ELSE IF Head(rest) \in Whitespace
    THEN (IF cur = <<>> THEN <<>> ELSE <<cur>>) \o StrSplit(Tail(rest), <<>>)
    ELSE StrSplit(Tail(rest), Append(cur, Head(rest)))

str_split(text) == StrSplit(text, <<>>)

\* The loop of get_git_ids over a list of strings.
RECURSIVE get_git_ids(_)
get_git_ids(commits) ==
    IF commits = <<>> THEN <<>>
    ELSE IF MatchId(Head(commits)) = NoMatch THEN get_git_ids(Tail(commits))
    ELSE <<MatchId(Head(commits))>> \o get_git_ids(Tail(commits))

(***************************************************************************)
(* shell: subprocess.run(command, text=True, check=True,                   *)
(* capture_output=True).  proc is what the spawned process does: its exit  *)
(* status, its stdout and its stderr.  A call either returns a value or    *)
(* raises an exception.                                                    *)
(***************************************************************************)
NoValue == <<>>

NoExc == [type |-> "none", returncode |-> 0, stderr |-> ""]

Return(v) == [raised |-> FALSE, value |-> v, exc |-> NoExc]

Raise(e) == [raised |-> TRUE, value |-> NoValue, exc |-> e]

CalledProcessError(proc) ==
    [type |-> "CalledProcessError", returncode |-> proc.returncode, stderr |-> proc.stderr]

ValueError == [type |-> "ValueError", returncode |-> 0, stderr |-> ""]

UnboundLocalError == [type |-> "UnboundLocalError", returncode |-> 0, stderr |-> ""]

shell(command, proc) ==
    IF proc.returncode # 0 THEN Raise(CalledProcessError(proc)) ELSE Return(proc.stdout)

\* What `git show <commit>` / `git stash show -p <commit>` may do: print the
\* patch of the reference as the repository has it now, or fail.
PatchText(command, v) == <<"patch", command[Len(command)], v>>

ShowResults(command) ==
    {[returncode |-> 0, stdout |-> PatchText(command, v), stderr |-> ""] : v \in 1..MaxVersions}
    \cup {[returncode |-> 1, stdout |-> NoValue, stderr |-> "fatal: bad object"]}

GitShow(c) == <<"git", "show", c>>

GitStashShow(c) == <<"git", "stash", "show", "-p", c>>

\* The command get_patch runs for a reference, <<>> when it runs none.
PatchCommand(c) ==
    IF COMMIT_HASH(c) # NoMatch THEN GitShow(c)
    ELSE IF STASH_ID(c) # NoMatch THEN GitStashShow(c)
    ELSE <<>>

\* Every process result the environment may answer a call of get_patch with.
ProcResults(c) == ShowResults(IF PatchCommand(c) = <<>> THEN GitShow(c) ELSE PatchCommand(c))

(***************************************************************************)
(* get_patch, undecorated: the result of the call and the processes spawned*)
(***************************************************************************)
get_patch_body_unchecked(c, proc) ==
    IF STASH_ID(c) # NoMatch
    THEN [res |-> shell(GitStashShow(c), proc), spawns |-> 1]
    ELSE [res |-> shell(GitShow(c), proc), spawns |-> 1]

\* get_patch taking a hash written in full only.
get_patch_body_full_hash(c, proc) ==
    IF COMMIT_HASH(c) # NoMatch /\ Len(c) = MaxHashLen
    THEN [res |-> shell(GitShow(c), proc), spawns |-> 1]
    ELSE IF STASH_ID(c) # NoMatch
    THEN [res |-> shell(GitStashShow(c), proc), spawns |-> 1]
    ELSE [res |-> Raise(ValueError), spawns |-> 0]

get_patch_body(c, proc) ==
    IF COMMIT_HASH(c) # NoMatch
    THEN [res |-> shell(GitShow(c), proc), spawns |-> 1]
    ELSE IF STASH_ID(c) # NoMatch
    THEN [res |-> shell(GitStashShow(c), proc), spawns |-> 1]
    ELSE [res |-> Raise(ValueError), spawns |-> 0]

(***************************************************************************)
(* functools.lru_cache(): maxsize defaults to 128.  A hit returns the      *)
(* stored value and makes the key the most recently used; a miss calls the *)
(* function, and stores its value unless it raised, evicting the least     *)
(* recently used entry when the cache is full.                             *)
(***************************************************************************)
LruMaxSize == 128

CacheKeys(c) == {c[i].key : i \in 1..Len(c)}

CacheIndex(c, k) == (CHOOSE i \in 1..Len(c) : c[i].key = k)

LruWithout(c, k) == SelectSeq(c, LAMBDA e : e.key # k)

LruStoreUnbounded(c, k, v) == c \o <<[key |-> k, val |-> v]>>

LruStore(c, k, v) ==
    (IF Len(c) >= LruMaxSize THEN Tail(c) ELSE c) \o <<[key |-> k, val |-> v]>>

\* The decorated get_patch applied with cache c: the new cache, the result,
\* and the number of processes spawned.
get_patch_uncached(c, k, proc) ==
    [cache |-> c] @@ get_patch_body(k, proc)

get_patch_cache_failures(c, k, proc) ==
    IF k \in CacheKeys(c)
    THEN [cache |-> LruWithout(c, k) \o <<c[CacheIndex(c, k)]>>,
          res |-> Return(c[CacheIndex(c, k)].val), spawns |-> 0]
    ELSE LET call == get_patch_body(k, proc)
         IN  [cache |-> LruStore(c, k, call.res.value), res |-> call.res, spawns |-> call.spawns]

get_patch(c, k, proc) ==
    IF k \in CacheKeys(c)
    THEN [cache |-> LruWithout(c, k) \o <<c[CacheIndex(c, k)]>>,
          res |-> Return(c[CacheIndex(c, k)].val), spawns |-> 0]
    ELSE LET call == get_patch_body(k, proc)
         IN  [cache |-> IF call.res.raised THEN c ELSE LruStore(c, k, call.res.value),
              res |-> call.res, spawns |-> call.spawns]

(***************************************************************************)
(* References and other strings the model calls the functions with.        *)
(***************************************************************************)
T_aaa111 == <<"a", "a", "a", "1", "1", "1">>
T_bbb222 == <<"b", "b", "b", "2", "2", "2">>
T_stash0 == StashPrefix \o <<"0", "}">>
T_not_a_hash == <<"n", "o", "t", "-", "a", "-", "h", "a", "s", "h">>
T_abcd == <<"a", "b", "c", "d">>

FetchPool == {T_aaa111, T_bbb222, T_stash0, T_not_a_hash, T_abcd}

(***************************************************************************)
(* One call of get_patch(k), the process (if one is spawned) doing proc:   *)
(* the cache changes as the decorator has it, and the call is observed.    *)
(***************************************************************************)
NoCall ==
    [called |-> FALSE, commit |-> <<>>, res |-> Return(NoValue), spawns |-> 0,
     okBefore |-> FALSE, fewBefore |-> TRUE,
     proc |-> [returncode |-> 0, stdout |-> NoValue, stderr |-> ""]]

GetPatchObserved(k, proc) ==
    LET call == get_patch(cache, k, proc)
    IN  /\ cache' = call.cache
        /\ lastCall' = [called |-> TRUE, commit |-> k, res |-> call.res,
                        spawns |-> call.spawns, okBefore |-> k \in everOk,
                        fewBefore |-> k \in DOMAIN othersSince
                                      => Cardinality(othersSince[k]) < LruMaxSize,
                        proc |-> proc]
        /\ everOk' = IF call.res.raised THEN everOk ELSE everOk \cup {k}
        /\ othersSince' =
              IF call.res.raised THEN othersSince
              ELSE [t \in DOMAIN othersSince |->
                        IF t = k THEN {}
                        ELSE IF t \in everOk THEN othersSince[t] \cup {k}
                        ELSE othersSince[t]]

GetPatchCall(k, proc) == GetPatchObserved(k, proc) /\ prevCall' = lastCall

FetchInit(tracked) ==
    /\ cache = <<>>
    /\ lastCall = NoCall
    /\ prevCall = NoCall
    /\ everOk = {}
    /\ othersSince = [t \in tracked |-> {}]

\* No call of get_git_ids yet: its input (a list of strings), the standard
\* input as it stands, the list returned, the commands run and what is left
\* unread of standard input.
ExtInput(toks, sin) ==
    [called |-> FALSE, isStr |-> FALSE, input |-> toks, stdin |-> sin, output |-> <<>>,
     shellCalls |-> 0, stdinLeft |-> sin]

\* The same, the input being one string.
ExtText(text) == [ExtInput(text, <<>>) EXCEPT !.isStr = TRUE]

NoExt == ExtInput(<<>>, <<>>)

NoText == <<>>

\* No press of the button yet: the text of the command input at the press,
\* the command run, and whether the handler raised.
NoCmd == [pressed |-> FALSE, text |-> <<>>, argv |-> <<>>, raised |-> FALSE]

AppInit ==
    /\ list_items = <<>>
    /\ index = 0
    /\ listQ = <<>>
    /\ appQ = <<>>
    /\ commit = NoValue
    /\ diff_stat = NoText
    /\ crashed = NoExc
    /\ cmdRun = NoCmd
    /\ inflight = <<>>

(***************************************************************************)
(* get_patch called directly, with any string of the pool, any number of   *)
(* times.                                                                  *)
(***************************************************************************)
InitFetch == FetchInit(FetchPool) /\ ext = NoExt /\ AppInit

FetchAny ==
    \E k \in FetchPool : \E proc \in ProcResults(k) :
        GetPatchCall(k, proc) /\ UNCHANGED <<ext, appVars>>

NextFetch == FetchAny

SpecFetch == InitFetch /\ [][NextFetch]_vars

\* C1: two calls of get_patch in a row for the same reference, the first
\* returning a patch: the second spawns no process and returns the very string
\* the first returned, so both together spawn at most one process.
C1_SecondCallHits ==
    (/\ prevCall.called /\ lastCall.called
     /\ prevCall.commit = lastCall.commit
     /\ ~prevCall.res.raised)
    => /\ lastCall.spawns = 0
       /\ prevCall.spawns + lastCall.spawns <= 1
       /\ ~lastCall.res.raised
       /\ lastCall.res.value = prevCall.res.value

\* The first call spawned the process and printed version 1; the tool would
\* print version 2 at the second call, which returns the first call's string.
C1_Witness ==
    /\ prevCall.called /\ lastCall.called
    /\ prevCall.commit = T_stash0 /\ lastCall.commit = T_stash0
    /\ prevCall.spawns = 1 /\ ~prevCall.res.raised
    /\ prevCall.res.value = PatchText(GitStashShow(T_stash0), 1)
    /\ lastCall.proc.stdout = PatchText(GitStashShow(T_stash0), 2)
    /\ lastCall.res.value = PatchText(GitStashShow(T_stash0), 1)

\* C2: a call of get_patch whose process exits non-zero raises
\* CalledProcessError with that exit status and that stderr, leaves no cache
\* entry for the reference, and the next call for the reference spawns again.
SpawnFailed(call) == call.called /\ call.spawns = 1 /\ call.proc.returncode # 0

C2_FailureNotCached ==
    /\ SpawnFailed(lastCall) =>
          /\ lastCall.res.raised
          /\ lastCall.res.exc.type = "CalledProcessError"
          /\ lastCall.res.exc.returncode = lastCall.proc.returncode
          /\ lastCall.res.exc.stderr = lastCall.proc.stderr
          /\ lastCall.commit \notin CacheKeys(cache)
    /\ (SpawnFailed(prevCall) /\ lastCall.commit = prevCall.commit) =>
          lastCall.spawns = 1

\* The tool failed with status 1 and "fatal: bad object"; the retry spawned a
\* process again and returned a patch.
C2_Witness ==
    /\ SpawnFailed(prevCall)
    /\ prevCall.res.exc.returncode = 1
    /\ prevCall.res.exc.stderr = "fatal: bad object"
    /\ lastCall.commit = prevCall.commit
    /\ lastCall.spawns = 1
    /\ ~lastCall.res.raised
    /\ lastCall.commit \in CacheKeys(cache)

\* C3: get_patch of a string neither pattern matches raises ValueError and
\* runs no command, at the first call and at every later one.
MatchesNeither(s) == COMMIT_HASH(s) = NoMatch /\ STASH_ID(s) = NoMatch

C3_InvalidReference ==
    /\ (lastCall.called /\ MatchesNeither(lastCall.commit)) =>
          /\ lastCall.res.raised
          /\ lastCall.res.exc.type = "ValueError"
          /\ lastCall.spawns = 0
    /\ \A k \in CacheKeys(cache) : ~MatchesNeither(k)

\* get_patch("not-a-hash") called twice in a row.
C3_Witness ==
    /\ prevCall.called /\ prevCall.commit = T_not_a_hash
    /\ prevCall.res.exc.type = "ValueError"
    /\ lastCall.called /\ lastCall.commit = T_not_a_hash
    /\ lastCall.res.exc.type = "ValueError" /\ lastCall.spawns = 0

(***************************************************************************)
(* get_git_ids called once, with any sequence of at most MaxTokens tokens  *)
(* of the pool, standard input holding any of two texts.                   *)
(***************************************************************************)
T_dash == <<"-">>
T_deadbeef == <<"d", "e", "a", "d", "b", "e", "e", "f">>
T_cafefeed12 == <<"c", "a", "f", "e", "f", "e", "e", "d", "1", "2">>
T_zzzzz == <<"z", "z", "z", "z", "z">>
T_extra == <<"e", "x", "t", "r", "a">>
T_hash_then_text == <<"A", "b", "c", "d", "9", "-", "x">>
T_hash_then_word == <<"a", "b", "c", "d", "e", "g">>
T_stash12x == StashPrefix \o <<"1", "2", "}", "x">>
T_stash_empty == StashPrefix \o <<"}">>
T_Stash1 == <<"S", "t", "a", "s", "h", "@", "{", "1", "}">>

ExtractPool ==
    {T_dash, T_deadbeef, T_zzzzz, T_abcd, T_hash_then_text, T_hash_then_word,
     Rep("f", MinHashLen), Rep("0", MaxHashLen), Rep("a", MaxHashLen + 1),
     T_stash0, T_stash12x, T_stash_empty, T_Stash1}

StdinPool == {<<>>, <<T_cafefeed12, T_extra>>}

TokenSeqs == UNION {[1..n -> ExtractPool] : n \in 0..MaxTokens}

\* get_git_ids(commits) runs no command and reads nothing: it returns the list.
GetGitIdsCall_Fallback ==
    /\ ~ext.called
    /\ ext' = [ext EXCEPT !.called = TRUE,
                          !.output = IF ext.input = <<>> THEN get_git_ids(<<T_aaa111, T_bbb222>>)
                                     ELSE get_git_ids(ext.input),
                          !.shellCalls = IF ext.input = <<>> THEN 1 ELSE 0]
    /\ UNCHANGED <<fetchVars, appVars>>

RECURSIVE ExpandDash(_, _)
ExpandDash(toks, sin) ==
    IF toks = <<>> THEN <<>>
    ELSE IF Head(toks) = T_dash THEN sin \o ExpandDash(Tail(toks), <<>>)
    ELSE <<Head(toks)>> \o ExpandDash(Tail(toks), sin)

GetGitIdsCall_ReadStdin ==
    /\ ~ext.called
    /\ ext' = [ext EXCEPT !.called = TRUE,
                          !.output = get_git_ids(ExpandDash(ext.input, ext.stdin)),
                          !.stdinLeft = IF \E i \in 1..Len(ext.input) : ext.input[i] = T_dash
                                        THEN <<>> ELSE ext.stdin]
    /\ UNCHANGED <<fetchVars, appVars>>

\* get_git_ids(commits): a string is split first, then the loop.
GetGitIdsCall ==
    /\ ~ext.called
    /\ ext' = [ext EXCEPT !.called = TRUE,
                          !.output = get_git_ids(IF ext.isStr THEN str_split(ext.input)
                                                 ELSE ext.input)]
    /\ UNCHANGED <<fetchVars, appVars>>

InitExtract ==
    /\ FetchInit(FetchPool)
    /\ AppInit
    /\ ext \in {ExtInput(toks, sin) : toks \in TokenSeqs, sin \in StdinPool}

NextExtract == GetGitIdsCall

SpecExtract == InitExtract /\ [][NextExtract]_vars

\* The two accepted shapes, of a whole string.
IsHexShape(s) ==
    /\ Len(s) >= 5 /\ Len(s) <= 40
    /\ \A i \in 1..Len(s) : s[i] \in HexChars

IsStashShape(s) ==
    /\ Len(s) >= 9
    /\ SubSeq(s, 1, 7) = <<"s", "t", "a", "s", "h", "@", "{">>
    /\ s[Len(s)] = "}"
    /\ \A i \in 8..(Len(s) - 1) : s[i] \in Digits

\* A token some leading substring of which has an accepted shape.
StartsWithShape(tok) ==
    \E n \in 1..Len(tok) : IsHexShape(SubSeq(tok, 1, n)) \/ IsStashShape(SubSeq(tok, 1, n))

\* C6: every element get_git_ids returns has exactly one of the two accepted
\* shapes and is the leading substring of an input token that starts with an
\* accepted shape; tokens that do not start with one add no element.
C6_OutputShapes ==
    ext.called =>
        /\ \A k \in 1..Len(ext.output) :
              /\ IsHexShape(ext.output[k]) # IsStashShape(ext.output[k])
              /\ \E i \in 1..Len(ext.input) :
                    /\ StartsWithShape(ext.input[i])
                    /\ IsPrefix(ext.output[k], ext.input[i])
        /\ Len(ext.output) <= Cardinality({i \in 1..Len(ext.input) : StartsWithShape(ext.input[i])})

\* A hash followed by other text, a stash slot followed by other text and a
\* token of no accepted shape: two elements, each shorter than its token.
C6_Witness ==
    /\ ext.called
    /\ ext.input = <<T_hash_then_text, T_zzzzz, T_stash12x>>
    /\ ext.output = <<SubSeq(T_hash_then_text, 1, 5), SubSeq(T_stash12x, 1, 10)>>

\* C7 as stated: an empty sequence runs the default listing command once; a
\* non-empty sequence without a valid token gives an empty list and runs none.
NoValidToken(toks) == \A i \in 1..Len(toks) : MatchesNeither(toks[i])

NoItem == [kind |-> "none", content |-> <<>>]

\* ListItem(Label(c)), as set_content builds it.
LabelItem(c) == [kind |-> "label", content |-> c]

\* A ListItem whose first child is no Label.
OtherItem == [kind |-> "other", content |-> <<>>]

Highlight(c) == [type |-> "Highlight", value |-> c]

CommandRun(value) == [type |-> "CommandRun", value |-> value]

Running == crashed = NoExc

\* The event loop is free to run a handler: the application has not ended and
\* no handler is waiting in subprocess.run for its process to exit.
LoopFree == Running /\ inflight = <<>>

\* pygments.highlight(patch, DiffLexer(), TerminalFormatter())
highlight(patch) == <<"ansi", patch>>

\* What the query command prints, line by line.
ListingPool ==
    {<<>>, <<T_aaa111, T_bbb222>>, <<T_zzzzz, T_bbb222>>}

ListingResults ==
    {[returncode |-> 0, stdout |-> out, stderr |-> ""] : out \in ListingPool}
    \cup {[returncode |-> 128, stdout |-> NoValue, stderr |-> "fatal: not a git repository"]}

(***************************************************************************)
(* The text of the command input, a sequence of characters as every other  *)
(* string here, and what on_button_pressed makes of it.                    *)
(***************************************************************************)
W_git == <<"g", "i", "t">>
W_log == <<"l", "o", "g">>
W_stash == <<"s", "t", "a", "s", "h">>
W_list == <<"l", "i", "s", "t">>
W_pretty_H == <<"-", "-", "p", "r", "e", "t", "t", "y", "=", "%", "H">>
W_format_h == <<"-", "-", "f", "o", "r", "m", "a", "t", "=", "%", "h">>
W_open_quote == <<"'", "x">>

RECURSIVE JoinWords(_)
JoinWords(ws) ==
    IF ws = <<>> THEN <<>>
    ELSE IF Len(ws) = 1 THEN Head(ws)
    ELSE Head(ws) \o <<" ">> \o JoinWords(Tail(ws))

\* GitCommand's text when the application starts.
GitCommandText == JoinWords(<<W_git, W_log>>)

\* cmd.startswith("git stash")
GitStashText == JoinWords(<<W_git, W_stash>>)

\* "--pretty"
PrettyText == <<"-", "-", "p", "r", "e", "t", "t", "y">>

\* " --pretty=%h"
PrettySuffix == <<" ", "-", "-", "p", "r", "e", "t", "t", "y", "=", "%", "h">>

\* sub in text
Contains(text, sub) ==
    \E i \in 0..(Len(text) - Len(sub)) : SubSeq(text, i + 1, i + Len(sub)) = sub

\* The text without the exception made for "git stash".
command_text_no_stash(text) ==
    IF ~Contains(text, PrettyText) THEN text \o PrettySuffix ELSE text

\* The command on_button_pressed runs for the text of the input: a text that
\* starts with "git stash" or holds "--pretty" anywhere is taken as it is,
\* any other gets " --pretty=%h" appended.
command_text(text) ==
    IF IsPrefix(GitStashText, text) THEN text
    ELSE IF ~Contains(text, PrettyText) THEN text \o PrettySuffix
    ELSE text

\* The words of a text whose quotes are balanced: a space outside quotes
\* ends a word, a quote starts or ends a quoted part and is dropped.
RECURSIVE ShlexWords(_, _, _, _)
ShlexWords(rest, cur, quoted, started) ==
    IF rest = <<>> THEN (IF started THEN <<cur>> ELSE <<>>)
    ELSE IF Head(rest) = "'" THEN ShlexWords(Tail(rest), cur, ~quoted, TRUE)
    ELSE IF Head(rest) = " " /\ ~quoted
    THEN (IF started THEN <<cur>> ELSE <<>>) \o ShlexWords(Tail(rest), <<>>, FALSE, FALSE)
    ELSE ShlexWords(Tail(rest), Append(cur, Head(rest)), quoted, TRUE)

NoClosingQuotation == [type |-> "ValueError", returncode |-> 0, stderr |-> "No closing quotation"]

\* shlex.split(text), for texts of letters, digits, punctuation, spaces and
\* single quotes: a quote left open raises ValueError.
shlex_split(text) ==
    IF Cardinality({i \in DOMAIN text : text[i] = "'"}) % 2 = 1
    THEN Raise(NoClosingQuotation)
    ELSE Return(ShlexWords(text, <<>>, FALSE, FALSE))

Init == FetchInit({}) /\ ext = NoExt /\ AppInit

\* The user moves the highlight to row i: ListView.index changes and its
\* watcher posts ListView.Highlighted with the item of that row.
UserHighlights ==
    \E i \in 1..Len(list_items) :
        /\ LoopFree
        /\ i # index
        /\ Len(listQ) + Len(appQ) < MaxQueue
        /\ index' = i
        /\ listQ' = Append(listQ, LabelItem(list_items[i]))
        /\ UNCHANGED <<fetchVars, ext, list_items, appQ, commit, diff_stat, crashed, cmdRun, inflight>>

\* on_list_view_highlighted reading the children of an item that is None.
on_list_view_highlighted_no_none_check ==
    /\ LoopFree
    /\ listQ # <<>>
    /\ listQ' = Tail(listQ)
    /\ LET item == Head(listQ)
       IN  IF item.kind = "none"
           THEN crashed' = [type |-> "AttributeError", returncode |-> 0, stderr |-> ""]
                /\ UNCHANGED appQ
           ELSE IF item.kind = "label"
           THEN appQ' = Append(appQ, Highlight(item.content)) /\ UNCHANGED crashed
           ELSE crashed' = UnboundLocalError /\ UNCHANGED appQ
    /\ UNCHANGED <<fetchVars, ext, list_items, index, commit, diff_stat, cmdRun, inflight>>

\* DiffList.on_list_view_highlighted(message)
on_list_view_highlighted ==
    /\ LoopFree
    /\ listQ # <<>>
    /\ listQ' = Tail(listQ)
    /\ LET item == Head(listQ)
       IN  IF item.kind = "none"
           THEN UNCHANGED <<appQ, crashed>>
           ELSE IF item.kind = "label"
           THEN appQ' = Append(appQ, Highlight(item.content)) /\ UNCHANGED crashed
           ELSE crashed' = UnboundLocalError /\ UNCHANGED appQ
    /\ UNCHANGED <<fetchVars, ext, list_items, index, commit, diff_stat, cmdRun, inflight>>

\* on_diff_list_highlight leaving the pane when the patch comes from the cache.
on_diff_list_highlight_skips_cached ==
    /\ LoopFree
    /\ appQ # <<>>
    /\ Head(appQ).type = "Highlight"
    /\ appQ' = Tail(appQ)
    /\ commit' = Head(appQ).value
    /\ \E proc \in ProcResults(commit') :
        /\ GetPatchObserved(commit', proc)
        /\ IF lastCall'.res.raised
           THEN crashed' = lastCall'.res.exc /\ UNCHANGED diff_stat
           ELSE IF lastCall'.spawns = 0
           THEN UNCHANGED <<diff_stat, crashed>>
           ELSE diff_stat' = highlight(lastCall'.res.value) /\ UNCHANGED crashed
    /\ UNCHANGED <<prevCall, ext, list_items, index, listQ, cmdRun, inflight>>

\* on_diff_list_highlight keeping the reference only once its patch is there.
on_diff_list_highlight_commit_after ==
    /\ LoopFree
    /\ appQ # <<>>
    /\ Head(appQ).type = "Highlight"
    /\ appQ' = Tail(appQ)
    /\ \E proc \in ProcResults(Head(appQ).value) :
        /\ GetPatchObserved(Head(appQ).value, proc)
        /\ IF lastCall'.res.raised
           THEN crashed' = lastCall'.res.exc /\ UNCHANGED <<diff_stat, commit>>
           ELSE /\ diff_stat' = highlight(lastCall'.res.value)
                /\ commit' = Head(appQ).value
                /\ UNCHANGED crashed
    /\ UNCHANGED <<prevCall, ext, list_items, index, listQ, cmdRun, inflight>>

\* on_diff_list_highlight emptying the pane before the patch is fetched.
on_diff_list_highlight_clears_first ==
    /\ LoopFree
    /\ appQ # <<>>
    /\ Head(appQ).type = "Highlight"
    /\ appQ' = Tail(appQ)
    /\ commit' = Head(appQ).value
    /\ \E proc \in ProcResults(commit') :
        /\ GetPatchObserved(commit', proc)
        /\ IF lastCall'.res.raised
           THEN crashed' = lastCall'.res.exc /\ diff_stat' = NoText
           ELSE diff_stat' = highlight(lastCall'.res.value) /\ UNCHANGED crashed
    /\ UNCHANGED <<prevCall, ext, list_items, index, listQ, cmdRun, inflight>>

\* DiffViewer.on_diff_list_highlight(message), update_diff_stat included.
on_diff_list_highlight ==
    /\ LoopFree
    /\ appQ # <<>>
    /\ Head(appQ).type = "Highlight"
    /\ appQ' = Tail(appQ)
    /\ commit' = Head(appQ).value
    /\ \E proc \in ProcResults(commit') :
        /\ GetPatchObserved(commit', proc)
        /\ IF lastCall'.res.raised
           THEN crashed' = lastCall'.res.exc /\ UNCHANGED diff_stat
           ELSE diff_stat' = highlight(lastCall'.res.value) /\ UNCHANGED crashed
    /\ UNCHANGED <<prevCall, ext, list_items, index, listQ, cmdRun, inflight>>

\* The row ListView.extend leaves highlighted in a list it found empty with
\* no row highlighted: releases of Textual differ in whether the first of
\* the new items is highlighted (1) or none is (0).
ExtendIndex(content) == IF content = <<>> THEN {0} ELSE {0, 1}

\* set_content keeping the items it finds.
set_content_keeps(content) ==
    \E first \in ExtendIndex(content) :
        /\ list_items' = list_items \o content
        /\ index' = first
        /\ listQ' = listQ
                    \o (IF index # 0 THEN <<NoItem>> ELSE <<>>)
                    \o (IF first # 0 THEN <<LabelItem(content[1])>> ELSE <<>>)

\* DiffList.set_content(content): clear() drops the items and sets index to
\* None, extend() mounts the new items; the watcher of index posts
\* ListView.Highlighted at each change of index.
set_content(content) ==
    \E first \in ExtendIndex(content) :
        /\ list_items' = content
        /\ index' = first
        /\ listQ' = listQ
                    \o (IF index # 0 THEN <<NoItem>> ELSE <<>>)
                    \o (IF first # 0 THEN <<LabelItem(content[1])>> ELSE <<>>)

\* DiffViewer.on_get_diffs_command_run(message)
on_get_diffs_command_run ==
    /\ LoopFree
    /\ appQ # <<>>
    /\ Head(appQ).type = "CommandRun"
    /\ appQ' = Tail(appQ)
    /\ set_content(Head(appQ).value)
    /\ UNCHANGED <<fetchVars, ext, commit, diff_stat, crashed, cmdRun, inflight>>

\* on_button_pressed posting an empty CommandRun when the command fails.
ButtonPressed_posts_on_failure(text) ==
    \E proc \in ListingResults :
        /\ LoopFree
        /\ Len(listQ) + Len(appQ) < MaxQueue
        /\ LET argv == shlex_split(command_text(text))
               cmd_out == IF argv.raised THEN argv ELSE shell(argv.value, proc)
           IN  /\ cmdRun' = [pressed |-> TRUE, text |-> text,
                             argv |-> IF argv.raised THEN <<>> ELSE argv.value,
                             raised |-> cmd_out.raised]
               /\ IF cmd_out.raised
                  THEN crashed' = cmd_out.exc /\ appQ' = Append(appQ, CommandRun(<<>>))
                  ELSE /\ appQ' = Append(appQ, CommandRun(get_git_ids(cmd_out.value)))
                       /\ UNCHANGED crashed
        /\ UNCHANGED <<fetchVars, ext, list_items, index, listQ, commit, diff_stat, inflight>>

\* GetDiffs.on_button_pressed(message), text being the text of the command
\* input: the command made of the text is split, run, its output lines are
\* extracted from, and CommandRun is posted with the references.
ButtonPressed(text) ==
    \E proc \in ListingResults :
        /\ LoopFree
        /\ Len(listQ) + Len(appQ) < MaxQueue
        /\ LET argv == shlex_split(command_text(text))
               cmd_out == IF argv.raised THEN argv ELSE shell(argv.value, proc)
           IN  /\ cmdRun' = [pressed |-> TRUE, text |-> text,
                             argv |-> IF argv.raised THEN <<>> ELSE argv.value,
                             raised |-> cmd_out.raised]
               /\ IF cmd_out.raised
                  THEN crashed' = cmd_out.exc /\ UNCHANGED appQ
                  ELSE /\ appQ' = Append(appQ, CommandRun(get_git_ids(cmd_out.value)))
                       /\ UNCHANGED crashed
        /\ UNCHANGED <<fetchVars, ext, list_items, index, listQ, commit, diff_stat, inflight>>

\* The texts the command input holds when the button is pressed in a
\* session: the text it starts with, and one whose quote is left open.
SessionTexts == {GitCommandText, JoinWords(<<W_git, W_log, W_open_quote>>)}

on_button_pressed == \E text \in SessionTexts : ButtonPressed(text)

Next ==
    \/ UserHighlights
    \/ on_list_view_highlighted
    \/ on_diff_list_highlight
    \/ on_get_diffs_command_run
    \/ on_button_pressed

Spec == Init /\ [][Next]_vars

(***************************************************************************)
(* DiffList alone: besides the messages of its own items, it is sent       *)
(* ListView.Highlighted with an item whose first child is no Label.        *)
(***************************************************************************)
HighlightedOther ==
    /\ LoopFree
    /\ Len(listQ) + Len(appQ) < MaxQueue
    /\ listQ' = Append(listQ, OtherItem)
    /\ UNCHANGED <<fetchVars, ext, list_items, index, appQ, commit, diff_stat, crashed, cmdRun, inflight>>

NextWidget == Next \/ HighlightedOther

SpecWidget == Init /\ [][NextWidget]_vars

\* C4 as stated: a fetch that fails in the highlight handler does not end the
\* session; the detail pane shows an error message instead of a patch.
ErrorText(exc) == <<"error", exc>>

C4_FetchErrorShown ==
    (lastCall.called /\ lastCall.res.raised) =>
        (Running /\ diff_stat = ErrorText(lastCall.res.exc))

\* The reference whose patch a text of the detail pane renders.
ShownRef(text) == IF Len(text) = 2 /\ text[1] = "ansi" THEN text[2][2] ELSE <<>>

Quiescent == listQ = <<>> /\ appQ = <<>>

\* C5: when every message has been handled and no fetch failed, the detail
\* pane shows the patch of the reference highlighted last, the one at
\* ListView.index, and DiffViewer.commit is that reference.
C5_LastHighlightShown ==
    (Quiescent /\ Running /\ index # 0) =>
        /\ ShownRef(diff_stat) = list_items[index]
        /\ commit = list_items[index]

\* The list [aaa111, bbb222]: row 2 was highlighted and bbb222 fetched, then
\* row 1 again, and the pane shows aaa111's patch.
C5_Witness ==
    /\ Quiescent /\ Running
    /\ list_items = <<T_aaa111, T_bbb222>>
    /\ index = 1
    /\ T_bbb222 \in CacheKeys(cache)
    /\ lastCall.commit = T_aaa111
    /\ ShownRef(diff_stat) = T_aaa111

\* C10 as stated: handling ListView.Highlighted whose item is None or has no
\* Label as first child posts nothing, fetches nothing, raises nothing and
\* leaves the selection and the detail pane as they are.
C10_HighlightIgnored ==
    [][(/\ listQ # <<>>
        /\ Head(listQ).kind # "label"
        /\ listQ' = Tail(listQ))
       => UNCHANGED <<appQ, crashed, commit, diff_stat, index, list_items, fetchVars>>]_vars

(***************************************************************************)
(* The cache over a long session: one reference is fetched again and again *)
(* while up to MaxFresh further references, all distinct, are fetched one  *)
(* after the other, and the list is replaced in between.                   *)
(***************************************************************************)
HexDigit(d) == <<"0", "1", "2", "3", "4", "5", "6", "7", "8", "9",
                 "a", "b", "c", "d", "e", "f">>[d + 1]

\* The i-th further reference: i written with five hex digits.
RefN(i) ==
    <<HexDigit((i \div 4096) % 16), HexDigit((i \div 256) % 16), HexDigit((i \div 16) % 16),
      HexDigit(i % 16), HexDigit(0)>>

LruTracked == {T_aaa111}

FreshFetched == Cardinality(everOk \ LruTracked)

\* The process prints the patch, or fails.
LruProcResults(k) ==
    {r \in ProcResults(k) : r.returncode = 0 => r.stdout[3] = 1}

InitLru == FetchInit(LruTracked) /\ ext = NoExt /\ AppInit

FetchTracked ==
    \E k \in LruTracked : \E proc \in LruProcResults(k) :
        /\ GetPatchObserved(k, proc)
        /\ UNCHANGED <<prevCall, ext, appVars>>

FetchFresh ==
    \E proc \in LruProcResults(RefN(FreshFetched)) :
        /\ FreshFetched < MaxFresh
        /\ GetPatchObserved(RefN(FreshFetched), proc)
        /\ UNCHANGED <<prevCall, ext, appVars>>

\* A new query replaces the list (on_get_diffs_command_run).
ReplaceList ==
    \E content \in {<<T_bbb222>>} :
        /\ listQ = <<>>
        /\ set_content(content)
        /\ UNCHANGED <<fetchVars, ext, appQ, commit, diff_stat, crashed, cmdRun, inflight>>

NextLru == FetchTracked \/ FetchFresh \/ ReplaceList

SpecLru == InitLru /\ [][NextLru]_vars

LoadStep ==
    /\ appQ # <<>>
    /\ Head(appQ).type = "CommandRun"
    /\ appQ' = Tail(appQ)

\* C11: each CommandRun message handled replaces the list: after the step the
\* list holds exactly the references of the message, in their order, and
\* nothing of the list before; no other step changes the list.
C11_ListReplaced ==
    [][/\ LoadStep => list_items' = Head(appQ).value
       /\ ~LoadStep => list_items' = list_items]_vars

\* A list of one reference is shown after a list of two was, one of whose
\* references had been highlighted.
C11_Witness ==
    /\ list_items = <<T_bbb222>>
    /\ commit = T_aaa111
    /\ Running


(***************************************************************************)
(* on_button_pressed alone: the button is pressed once, the command input  *)
(* holding any text of at most MaxWords words.                             *)
(***************************************************************************)
W_pretty_h == <<"-", "-", "p", "r", "e", "t", "t", "y", "=", "%", "h">>

CmdWords == {W_git, W_log, W_stash, W_list, W_pretty_H, W_format_h, W_open_quote}

CmdTexts == {JoinWords(ws) : ws \in UNION {[1..n -> CmdWords] : n \in 1..MaxWords}}

PressAny == ~cmdRun.pressed /\ \E text \in CmdTexts : ButtonPressed(text)

NextCommand == PressAny

SpecCommand == Init /\ [][NextCommand]_vars

\* The text asks for an output format of its own.
RequestsFormat(text) ==
    Contains(text, PrettyText) \/ Contains(text, SubSeq(W_format_h, 1, 8))

\* The text can be split into words.
Tokenizable(text) == ~shlex_split(text).raised

\* C13 as stated: the command run is the text with the default format flag
\* appended if and only if the text asks for no format of its own; a text
\* that asks for one is run unchanged.
C13_FlagIffNoFormat ==
    (cmdRun.pressed /\ Tokenizable(cmdRun.text)) =>
        cmdRun.argv = IF RequestsFormat(cmdRun.text)
                      THEN shlex_split(cmdRun.text).value
                      ELSE shlex_split(cmdRun.text).value \o <<W_pretty_h>>

\* C13 amended: the command run is the text unchanged if the text starts with
\* "git stash" or holds "--pretty" anywhere, and the text with --pretty=%h
\* appended in every other case: a stash command gets no flag though it asks
\* for no format, and --format=... does not keep the flag away.
C13_FlagUnlessStashOrPretty ==
    (cmdRun.pressed /\ Tokenizable(cmdRun.text)) =>
        /\ cmdRun.argv = IF \/ IsPrefix(GitStashText, cmdRun.text)
                            \/ Contains(cmdRun.text, PrettyText)
                         THEN shlex_split(cmdRun.text).value
                         ELSE shlex_split(cmdRun.text).value \o <<W_pretty_h>>
        /\ cmdRun.text = JoinWords(<<W_git, W_stash, W_list>>)
               => cmdRun.argv = <<W_git, W_stash, W_list>>
        /\ cmdRun.text = JoinWords(<<W_git, W_log, W_format_h>>)
               => cmdRun.argv = <<W_git, W_log, W_format_h, W_pretty_h>>
        /\ cmdRun.text = JoinWords(<<W_git, W_log, W_pretty_H>>)
               => cmdRun.argv = <<W_git, W_log, W_pretty_H>>
        /\ cmdRun.text = GitCommandText
               => cmdRun.argv = <<W_git, W_log, W_pretty_h>>

\* "git stash list" was run as it is.
C13_Witness ==
    /\ cmdRun.pressed
    /\ ~cmdRun.raised
    /\ cmdRun.text = JoinWords(<<W_git, W_stash, W_list>>)
    /\ cmdRun.argv = <<W_git, W_stash, W_list>>


(***************************************************************************)
(* The reference DiffViewer keeps.                                         *)
(***************************************************************************)
\* C14 as stated: the reference kept always names a reference whose patch was
\* fetched successfully.
C14_ActiveFetched == commit # NoValue => commit \in everOk

\* C14 amended: the reference kept is the reference of the last Highlight
\* message handled, kept before its patch is fetched: it is the argument of
\* the latest call of get_patch whether that call returned or raised, and it
\* names a reference fetched successfully as long as no fetch has failed.
C14_ActiveIsLastRequested ==
    /\ lastCall.called <=> commit # NoValue
    /\ lastCall.called => commit = lastCall.commit
    /\ (Running /\ commit # NoValue) => commit \in everOk

\* The fetch of one reference succeeded, the fetch of the next one failed, and
\* the reference kept is the one whose patch was never fetched.
C14_Witness ==
    /\ diff_stat # NoText
    /\ lastCall.called /\ lastCall.res.raised
    /\ diff_stat[2][2] # lastCall.commit
    /\ commit = lastCall.commit
    /\ commit \notin everOk


(***************************************************************************)
(* Nothing highlighted.                                                    *)
(***************************************************************************)
\* The step in which DiffList handles a ListView.Highlighted message whose
\* item is None.
HighlightNoneStep ==
    /\ listQ # <<>>
    /\ Head(listQ).kind = "none"
    /\ listQ' = Tail(listQ)

\* No reference is highlighted and none is about to be: the list is empty and
\* no message pending names a reference.
NothingHighlighted ==
    /\ list_items = <<>>
    /\ \A i \in DOMAIN listQ : listQ[i].kind = "none"
    /\ \A i \in DOMAIN appQ : appQ[i].type # "Highlight"

\* C15: with no reference highlighted the fetch is not invoked and nothing is
\* raised.  Handling a highlight whose item is None posts nothing, calls
\* get_patch not at all and leaves the pane; loading an empty list leaves the
\* list empty with no row highlighted, posts no highlight of a reference and
\* calls get_patch not at all; and as long as nothing is highlighted no step
\* calls get_patch or spawns a process.
C15_EmptyFetchesNothing ==
    [][/\ HighlightNoneStep
            => UNCHANGED <<appQ, crashed, fetchVars, commit, diff_stat, inflight>>
       /\ (LoadStep /\ Head(appQ).value = <<>>)
            => /\ list_items' = <<>>
               /\ index' = 0
               /\ \A i \in DOMAIN listQ' : i > Len(listQ) => listQ'[i] = NoItem
               /\ UNCHANGED <<crashed, fetchVars, commit, diff_stat, inflight>>
       /\ NothingHighlighted => UNCHANGED <<fetchVars, inflight>>]_vars

\* A list was shown and a reference of it highlighted; then an empty list was
\* loaded, the highlight of no item handled, and nothing further fetched.
C15_Witness ==
    /\ list_items = <<>>
    /\ index = 0
    /\ Quiescent /\ Running
    /\ lastCall.called /\ lastCall.spawns = 1
    /\ Cardinality(CacheKeys(cache)) = 1
    /\ diff_stat # NoText


(***************************************************************************)
(* The fetch in time.  subprocess.run starts the process and waits for it  *)
(* to exit; the handler that called it, and with it the event loop, waits  *)
(* too.  Here the handler of DiffList.Highlight is taken in two steps, up  *)
(* to the start of the process and from its exit on; inflight holds the    *)
(* processes started and not yet exited.                                   *)
(***************************************************************************)
InFlight(c) == [commit |-> c, command |-> PatchCommand(c)]

\* get_patch(c) has to run a command: c is not in the cache and has the
\* shape of a reference.
NeedsProcess(c) == c \notin CacheKeys(cache) /\ ~MatchesNeither(c)

\* The handler not waiting for the process it starts.
BeginFetch_no_wait ==
    /\ Running
    /\ appQ # <<>>
    /\ Head(appQ).type = "Highlight"
    /\ NeedsProcess(Head(appQ).value)
    /\ appQ' = Tail(appQ)
    /\ commit' = Head(appQ).value
    /\ inflight' = Append(inflight, InFlight(commit'))
    /\ UNCHANGED <<fetchVars, ext, list_items, index, listQ, diff_stat, crashed, cmdRun>>

\* on_diff_list_highlight up to the start of the process in shell.
BeginFetch ==
    /\ LoopFree
    /\ appQ # <<>>
    /\ Head(appQ).type = "Highlight"
    /\ NeedsProcess(Head(appQ).value)
    /\ appQ' = Tail(appQ)
    /\ commit' = Head(appQ).value
    /\ inflight' = Append(inflight, InFlight(commit'))
    /\ UNCHANGED <<fetchVars, ext, list_items, index, listQ, diff_stat, crashed, cmdRun>>

\* on_diff_list_highlight from the exit of the process on: shell returns or
\* raises, lru_cache stores what get_patch returns, the pane is written.
EndFetch ==
    /\ Running
    /\ \E i \in DOMAIN inflight :
        \E proc \in ProcResults(inflight[i].commit) :
            /\ GetPatchObserved(inflight[i].commit, proc)
            /\ inflight' = SubSeq(inflight, 1, i - 1) \o SubSeq(inflight, i + 1, Len(inflight))
            /\ IF lastCall'.res.raised
               THEN crashed' = lastCall'.res.exc /\ UNCHANGED diff_stat
               ELSE diff_stat' = highlight(lastCall'.res.value) /\ UNCHANGED crashed
    /\ UNCHANGED <<prevCall, ext, list_items, index, listQ, appQ, commit, cmdRun>>

\* on_diff_list_highlight when get_patch runs no command.
FetchWithoutProcess ==
    /\ appQ # <<>>
    /\ Head(appQ).type = "Highlight"
    /\ ~NeedsProcess(Head(appQ).value)
    /\ on_diff_list_highlight

NextFlight ==
    \/ UserHighlights
    \/ on_list_view_highlighted
    \/ BeginFetch
    \/ EndFetch
    \/ FetchWithoutProcess
    \/ on_get_diffs_command_run
    \/ on_button_pressed

SpecFlight == Init /\ [][NextFlight]_vars

\* C16: at no time are two processes running for the same reference, whatever
\* the order of the highlights: at most one process runs at all, since the
\* handler that started it has not returned, and it runs for a reference the
\* cache does not hold, since get_patch looks there first.
C16_OneFetchPerReference ==
    /\ \A i, j \in DOMAIN inflight : i # j => inflight[i].commit # inflight[j].commit
    /\ Len(inflight) <= 1
    /\ \A i \in DOMAIN inflight : inflight[i].commit \notin CacheKeys(cache)

\* The process for a reference is running while a second highlight of the
\* same reference is waiting to be handled.
C16_Witness ==
    /\ Len(inflight) = 1
    /\ \E i \in DOMAIN appQ : appQ[i] = Highlight(inflight[1].commit)


(***************************************************************************)
(* get_git_ids called once with a list of at most MaxTokens tokens or with *)
(* one string holding as many, whitespace between and around them.         *)
(***************************************************************************)
RECURSIVE JoinWith(_, _)
JoinWith(ws, sep) ==
    IF ws = <<>> THEN <<>>
    ELSE IF Len(ws) = 1 THEN Head(ws)
    ELSE Head(ws) \o sep \o JoinWith(Tail(ws), sep)

\* A space between the tokens, or a newline and a tab with a space in front
\* of the first token and a newline after the last.
TextPool == {T_deadbeef, T_zzzzz, T_hash_then_text, T_stash12x, T_dash}

TextTokenSeqs == UNION {[1..n -> TextPool] : n \in 0..MaxTokens}

ExtTexts ==
    {JoinWith(toks, <<" ">>) : toks \in TextTokenSeqs}
    \cup {<<" ">> \o JoinWith(toks, <<"\n", "\t">>) \o <<"\n">> : toks \in TextTokenSeqs}

InitExtractArg ==
    /\ FetchInit(FetchPool)
    /\ AppInit
    /\ ext \in {ExtInput(toks, <<>>) : toks \in TokenSeqs} \cup {ExtText(text) : text \in ExtTexts}

SpecExtractArg == InitExtractArg /\ [][NextExtract]_vars

\* The tokens of a string: each starts at a character that is no whitespace
\* and that follows whitespace or nothing, and runs up to the next whitespace.
FieldStarts(text) ==
    {a \in DOMAIN text : text[a] \notin Whitespace /\ (a = 1 \/ text[a - 1] \in Whitespace)}

FieldEnd(text, a) ==
    CHOOSE b \in a..Len(text) :
        /\ \A c \in a..b : text[c] \notin Whitespace
        /\ b = Len(text) \/ text[b + 1] \in Whitespace

Fields(text) ==
    [k \in 1..Cardinality(FieldStarts(text)) |->
        LET a == CHOOSE x \in FieldStarts(text) :
                     Cardinality({y \in FieldStarts(text) : y <= x}) = k
        IN  SubSeq(text, a, FieldEnd(text, a))]

\* The tokens get_git_ids is given.
ArgTokens == IF ext.isStr THEN Fields(ext.input) ELSE ext.input

\* C17: the list returned holds, for each token a pattern matches, the part
\* matched at its start, in the order of the tokens and as often as such
\* tokens occur; the tokens no pattern matches leave no trace; the tokens of
\* a string are its parts between whitespace.
C17_OrderAndMultiplicity ==
    ext.called =>
        LET hits == {i \in DOMAIN ArgTokens : MatchId(ArgTokens[i]) # NoMatch}
        IN  /\ Len(ext.output) = Cardinality(hits)
            /\ \A i \in hits :
                   ext.output[Cardinality({j \in hits : j <= i})] = MatchId(ArgTokens[i])

\* One string with the same hash twice and a token no pattern matches between.
C17_Witness ==
    /\ ext.called
    /\ ext.isStr
    /\ ext.input = <<" ">> \o T_deadbeef \o <<"\n", "\t">> \o T_zzzzz
                   \o <<"\n", "\t">> \o T_deadbeef \o <<"\n">>
    /\ ext.output = <<T_deadbeef, T_deadbeef>>

\* C18: every string get_git_ids returns has a shape get_patch takes, so
\* get_patch raises no ValueError for it whatever the process does, and
\* get_git_ids of the list returned is that list.
C18_OutputRevalidates ==
    ext.called =>
        /\ \A k \in DOMAIN ext.output :
               \A proc \in ProcResults(ext.output[k]) :
                   get_patch_body(ext.output[k], proc).res.exc.type # "ValueError"
        /\ get_git_ids(ext.output) = ext.output

\* A hash cut at a boundary, a stash id cut after its brace and a hash of
\* the least length come back from get_git_ids.
C18_Witness ==
    /\ ext.called
    /\ ext.input = <<T_hash_then_text, T_stash12x, Rep("f", MinHashLen)>>
    /\ ext.output = <<SubSeq(T_hash_then_text, 1, 5), SubSeq(T_stash12x, 1, 10),
                      Rep("f", MinHashLen)>>


(***************************************************************************)
(* What a failure leaves as it was.                                        *)
(***************************************************************************)
\* The step in which DiffViewer handles the DiffList.Highlight message at the
\* head of its queue.
FetchStep ==
    /\ appQ # <<>>
    /\ Head(appQ).type = "Highlight"
    /\ appQ' = Tail(appQ)

\* C19: a fetch that fails leaves the detail pane as it was: if get_patch
\* raises in the handler of a highlight, the text of the pane after the step
\* is its text before; the pane changes only in a step whose fetch returned,
\* and then to the highlighted form of the patch returned.
C19_FailedFetchKeepsPane ==
    [][/\ (FetchStep /\ lastCall'.res.raised) => diff_stat' = diff_stat
       /\ diff_stat' # diff_stat
            => /\ FetchStep
               /\ ~lastCall'.res.raised
               /\ diff_stat' = highlight(lastCall'.res.value)]_vars

\* The pane shows the patch of one reference, and the fetch of another, the
\* latest, has failed.
C19_Witness ==
    /\ lastCall.called /\ lastCall.res.raised
    /\ crashed = lastCall.res.exc
    /\ crashed.type = "CalledProcessError"
    /\ ShownRef(diff_stat) # <<>>
    /\ ShownRef(diff_stat) # lastCall.commit

\* C20: a query command that fails, by exiting with a status other than 0 or
\* by a text that cannot be split into words, posts no CommandRun and leaves
\* the list, the row highlighted, the detail pane and the cache as they were.
C20_FailedCommandChangesNothing ==
    [][(cmdRun'.raised /\ ~cmdRun.raised)
       => /\ crashed' # NoExc
          /\ UNCHANGED <<appQ, list_items, index, listQ, commit, diff_stat,
                         fetchVars, inflight>>]_vars

\* A list is shown, a row of it highlighted and its patch in the pane and in
\* the cache, and the command run after that has exited with status 128.
C20_Witness ==
    /\ cmdRun.raised
    /\ crashed.type = "CalledProcessError" /\ crashed.returncode = 128
    /\ list_items # <<>>
    /\ index # 0
    /\ diff_stat # NoText
    /\ cache # <<>>

====
